---- MODULE Spec2Model ----
(***************************************************************************)
(* BrainBolt answer-submission engine: submitAnswer (quiz.ts),             *)
(* withTransaction (db.ts), the idempotency store (idempotency.ts), the    *)
(* user-state cache and its decay (userState.ts), the adaptive difficulty  *)
(* machine (adaptive.ts), the scoring function (score.ts) and the          *)
(* leaderboard upsert and cache refresh (leaderboard.ts).                  *)
(*                                                                         *)
(* Every request is a process; one action is one stretch of handler code   *)
(* between two awaits on PostgreSQL or Redis.  Time is counted in minutes. *)
(* Init adds to the state after onboarding the one where u1 has already    *)
(* used 19 of the 20 calls of the current rate window (19 calls rejected   *)
(* by the version check change nothing else).                              *)
(***************************************************************************)
EXTENDS Integers, Sequences, FiniteSets, TLC

\* ------------------------------------------------------------------ bounds
MaxCalls == 3
MaxTime == 6
MaxAnswers == 2        \* answers in a run of the adaptive step
MaxStreakInput == 2    \* highest streak a run of the adaptive step starts with
MaxSteps == 3          \* answers and decays in a run of the level steps
MaxStreakScore == 11   \* highest streak calculateScore is applied to

\* ------------------------------------------------------- program constants
INACTIVITY_DECAY_MS == 5
STREAK_DECAY_MS == 5
RATE_LIMIT_PER_MINUTE == 20
RATE_WINDOW == 1
MAX_MULTIPLIER == 2
WRONG_PENALTY == -5
MIN_DIFFICULTY == 1
MAX_DIFFICULTY == 10
CONFIDENCE_UP_THRESHOLD == 2
CONFIDENCE_DOWN_THRESHOLD == -2
MIN_STREAK_FOR_INCREASE == 2

\* ------------------------------------------------------------- value sets
Procs == {"p1", "p2"}
Users == {"u1", "u2"}
UserIds == Users \cup {"nobody"}
Questions == {"q1"}
QuestionIds == Questions \cup {"qx"}
Keys == {"k1"}
NoKey == "nokey"
NoQuestion == "noquestion"
NoTime == -1
Answers == {"a", "b", ""}
TickSteps == {6}

questions == [q \in Questions |-> [difficulty |-> 1, correct_answer |-> "a"]]

Min(a, b) == IF a < b THEN a ELSE b
\* Mutant: the second argument, whatever the first.
Mut_Max(a, b) == b

Max(a, b) == IF a > b THEN a ELSE b

\* ------------------------------------------------------------------ state
VARIABLES
  now,                \* the clock, in minutes
  user_state,         \* durable table user_state: user -> row
  answer_log,         \* durable table answer_log: sequence of rows
  leaderboard_score,  \* durable table leaderboard_score: user -> total_score
  leaderboard_streak, \* durable table leaderboard_streak: user -> max_streak
  rate,               \* Redis rate:<user> counters (0: key absent)
  rateExp,            \* expiry time of rate:<user> (NoTime: no expiry set)
  idemp,              \* Redis idemp:<key> -> stored response
  cache_state,        \* Redis user_state:<user> -> cached UserState
  zset_score,         \* Redis sorted set leaderboard:score
  zset_streak,        \* Redis sorted set leaderboard:streak
  cache_top,          \* Redis leaderboard:cache:<kind>:<limit> -> cached top list
  cache_metrics,      \* Redis metrics:<user> -> cached metrics payload
  redis_up,           \* the Redis server answers commands
  pc,                 \* per request: position in its handler
  req,                \* per request: the call's arguments
  loc,                \* per request: the handler's local variables
  calls,              \* number of calls started so far
  decays,             \* history: decay bumps made durable, per user
  decayedSince,       \* history: getUserState made a decay durable since the
                      \* user's last committed answer
  firstStored,        \* history: the first response stored under each key
  fn                  \* the adaptive step on its own: the states it went
                      \* through and the answers it was given

durable == <<user_state, answer_log, leaderboard_score, leaderboard_streak>>
topv == <<cache_top, cache_metrics>>
redisv == <<rate, rateExp, idemp, cache_state, zset_score, zset_streak, topv,
            redis_up>>
procv == <<pc, req, loc>>
hist == <<calls, decays, decayedSince, firstStored, fn>>
vars == <<now, durable, redisv, procv, hist>>

\* ------------------------------------------------------------ score.ts
\* Products baseScore * multiplier that are not integers in IEEE doubles
\* (difficulty, streak): e.g. 50 * 1.1 = 55.00000000000001.
InexactProducts ==
  {<<3, 7>>, <<5, 1>>, <<5, 7>>, <<6, 7>>, <<7, 7>>,
   <<9, 1>>, <<9, 4>>, <<9, 7>>, <<10, 1>>, <<10, 7>>}

\* calculateScore: value is the product rounded to the nearest integer,
\* integral tells whether the double the code returns is that integer.
calculateScore(difficulty, streak, correct) ==
  IF ~correct
  THEN [value |-> WRONG_PENALTY, integral |-> TRUE]
  ELSE [value |-> (difficulty * 10 * Min(10 + streak, 10 * MAX_MULTIPLIER)) \div 10,
        integral |-> <<difficulty, streak>> \notin InexactProducts]

\* --------------------------------------------------------- adaptive.ts
\* Mutant: no upper clamp.
Mut_clampDifficulty(value) == Max(MIN_DIFFICULTY, value)

clampDifficulty(value) == Min(MAX_DIFFICULTY, Max(MIN_DIFFICULTY, value))

clampConfidence(value) ==
  Max(-CONFIDENCE_UP_THRESHOLD, Min(CONFIDENCE_UP_THRESHOLD, value))

\* Mutant: the step up needs a confidence of 1 only.
Mut_computeNextDifficulty(currentDifficulty, correct, confidence, streak) ==
  LET c1 == IF correct THEN confidence + 1 ELSE confidence - 1
      up == c1 >= CONFIDENCE_UP_THRESHOLD - 1 /\ streak >= MIN_STREAK_FOR_INCREASE
      down == ~up /\ c1 <= CONFIDENCE_DOWN_THRESHOLD
      d1 == IF up THEN currentDifficulty + 1
            ELSE IF down THEN currentDifficulty - 1 ELSE currentDifficulty
      c2 == IF up \/ down THEN 0 ELSE c1
  IN [nextDifficulty |-> clampDifficulty(d1), nextConfidence |-> clampConfidence(c2)]

computeNextDifficulty(currentDifficulty, correct, confidence, streak) ==
  LET c1 == IF correct THEN confidence + 1 ELSE confidence - 1
      up == c1 >= CONFIDENCE_UP_THRESHOLD /\ streak >= MIN_STREAK_FOR_INCREASE
      down == ~up /\ c1 <= CONFIDENCE_DOWN_THRESHOLD
      d1 == IF up THEN currentDifficulty + 1
            ELSE IF down THEN currentDifficulty - 1 ELSE currentDifficulty
      c2 == IF up \/ down THEN 0 ELSE c1
  IN [nextDifficulty |-> clampDifficulty(d1), nextConfidence |-> clampConfidence(c2)]

\* -------------------------------------------------------- userState.ts
DEFAULT_STATE ==
  [currentDifficulty |-> 1, streak |-> 0, maxStreak |-> 0, totalScore |-> 0,
   stateVersion |-> 1, confidence |-> 0, lastAnswerAt |-> NoTime,
   lastQuestionId |-> NoQuestion]

\* JSON.stringify / JSON.parse of a UserState: the text is the list of the
\* members' values; an undefined member is left out and reads back undefined.
StringifyState(st) ==
  <<st.currentDifficulty, st.streak, st.maxStreak, st.totalScore,
    st.stateVersion, st.confidence, st.lastAnswerAt>>
  \o (IF st.lastQuestionId = NoQuestion THEN <<>> ELSE <<st.lastQuestionId>>)

ParseState(t) ==
  [currentDifficulty |-> t[1], streak |-> t[2], maxStreak |-> t[3],
   totalScore |-> t[4], stateVersion |-> t[5], confidence |-> t[6],
   lastAnswerAt |-> t[7],
   lastQuestionId |-> IF Len(t) > 7 THEN t[8] ELSE NoQuestion]

\* applyDecay's condition (userState.ts) and its decayed copy.
DecayDueRead(st, t) ==
  /\ st.lastAnswerAt # NoTime
  /\ t - st.lastAnswerAt > STREAK_DECAY_MS
  /\ st.streak > 0

\* submitAnswer's condition (quiz.ts): no test of the streak.
DecayDueSubmit(st, t) ==
  /\ st.lastAnswerAt # NoTime
  /\ t - st.lastAnswerAt > INACTIVITY_DECAY_MS

\* Mutant: the decay halves the streak and leaves the confidence as it was.
Mut_Decayed(st) ==
  [st EXCEPT !.streak = st.streak \div 2,
             !.stateVersion = st.stateVersion + 1]

Decayed(st) ==
  [st EXCEPT !.streak = st.streak \div 2,
             !.confidence = Max(st.confidence - 1, -2),
             !.stateVersion = st.stateVersion + 1]

\* ------------------------------------------------------ idempotency.ts
StringifyResponse(r) ==
  <<r.correct, r.newDifficulty, r.newConfidence, r.newStreak, r.scoreDelta,
    r.totalScore, r.stateVersion, r.leaderboardRankScore,
    r.leaderboardRankStreak, r.maxStreak, r.answeredAt>>

ParseResponse(t) ==
  [correct |-> t[1], newDifficulty |-> t[2], newConfidence |-> t[3],
   newStreak |-> t[4], scoreDelta |-> t[5], totalScore |-> t[6],
   stateVersion |-> t[7], leaderboardRankScore |-> t[8],
   leaderboardRankStreak |-> t[9], maxStreak |-> t[10], answeredAt |-> t[11]]

\* ------------------------------------------------------- leaderboard.ts
\* Mutant: rows with an equal value are counted too.
Mut_RankIn(table, value) ==
  Cardinality({u \in DOMAIN table : table[u] >= value}) + 1

\* COUNT(*) + 1 over the rows with a strictly greater value.
RankIn(table, value) ==
  Cardinality({u \in DOMAIN table : table[u] > value}) + 1

\* INSERT ... ON CONFLICT (user_id) DO UPDATE
Upsert(table, u, value) ==
  [x \in DOMAIN table \cup {u} |-> IF x = u THEN value ELSE table[x]]

\* ------------------------------------------------------------------- db.ts
EmptyTable == [x \in {} |-> 0]

\* The transaction of request p holds the row lock of user u from its
\* SELECT ... FOR UPDATE until COMMIT or ROLLBACK.
\* Mutant: the transaction locks the whole table, not the user's row.
Mut_HoldsLock(p, u) == pc[p] \in {"txBody", "txCommit"}

HoldsLock(p, u) == pc[p] \in {"txBody", "txCommit"} /\ req[p].userId = u

\* Mutant: the SELECT does not lock the row (no FOR UPDATE).
Mut_RowLockFree(u) == TRUE

\* A statement that needs the row lock of u waits while a transaction holds it.
RowLockFree(u) == \A p \in Procs : ~HoldsLock(p, u)

\* COMMIT: the transaction's writes become the durable state, all at once.
CommitUserState(us, w) == [us EXCEPT ![w.userId] = w.row]
\* Mutant: the INSERT into answer_log is lost at COMMIT.
Mut_CommitAnswerLog(log, w) == log

CommitAnswerLog(log, w) == Append(log, w.entry)
\* Mutant: the leaderboard_score upsert is not part of the transaction.
Mut_CommitLeaderboardScore(lb, w) == lb

CommitLeaderboardScore(lb, w) == Upsert(lb, w.userId, w.row.totalScore)
\* Mutant: the streak upsert writes the current streak, not the highest one.
Mut_CommitLeaderboardStreak(lb, w) == Upsert(lb, w.userId, w.row.streak)

CommitLeaderboardStreak(lb, w) == Upsert(lb, w.userId, w.row.maxStreak)

\* ------------------------------------------------------------- requests
NoBody ==
  [op |-> "none", userId |-> "nobody", questionId |-> "qx", answer |-> "", stateVersion |-> 0,
   answerIdempotencyKey |-> NoKey, stored |-> FALSE, limit |-> 0]

NoLoc == [state |-> DEFAULT_STATE, decay |-> FALSE, writes |-> <<>>,
          result |-> <<>>, err |-> "", replay |-> FALSE, rows |-> <<>>]

Finished == {"idle", "done", "failed"}

\* The state versions a client sends: the one the store holds when the call
\* starts (stale once another call commits first), or the next one.
VersionInputs(u) ==
  LET v == IF u \in Users THEN user_state[u].stateVersion ELSE 1
  IN {v, v + 1}

\* A finished request keeps who called, under which key, and the outcome;
\* its other arguments and locals are dead.
Trim(body) ==
  [NoBody EXCEPT !.op = body.op, !.userId = body.userId,
                 !.stateVersion = body.stateVersion,
                 !.answerIdempotencyKey = body.answerIdempotencyKey,
                 !.stored = body.stored]

Fail(p, body, msg) ==
  /\ pc' = [pc EXCEPT ![p] = "failed"]
  /\ req' = [req EXCEPT ![p] = Trim(body)]
  /\ loc' = [loc EXCEPT ![p] = [NoLoc EXCEPT !.err = msg]]

Return(p, body, value, replayed) ==
  /\ pc' = [pc EXCEPT ![p] = "done"]
  /\ req' = [req EXCEPT ![p] = Trim(body)]
  /\ loc' = [loc EXCEPT ![p] = [NoLoc EXCEPT !.result = value,
                                             !.replay = replayed]]

\* ------------------------------------------------------------------ Init
RateInit == {0, RATE_LIMIT_PER_MINUTE - 1}

\* The store after construction and onboarding.
InitStore ==
  /\ now = 0
  /\ user_state = [u \in Users |-> DEFAULT_STATE]
  /\ answer_log = <<>>
  /\ leaderboard_score = EmptyTable
  /\ leaderboard_streak = EmptyTable
  /\ \E r \in RateInit : rate = [u \in UserIds |-> IF u = "u1" THEN r ELSE 0]
  /\ rateExp = [u \in UserIds |-> IF rate[u] = 0 THEN NoTime ELSE RATE_WINDOW]
  /\ idemp = EmptyTable
  /\ cache_state = EmptyTable
  /\ zset_score = EmptyTable
  /\ zset_streak = EmptyTable
  /\ cache_top = EmptyTable
  /\ cache_metrics = EmptyTable
  /\ redis_up = TRUE
  /\ pc = [p \in Procs |-> "idle"]
  /\ req = [p \in Procs |-> NoBody]
  /\ loc = [p \in Procs |-> NoLoc]
  /\ calls = 0
  /\ decays = [u \in Users |-> 0]
  /\ decayedSince = [u \in Users |-> FALSE]
  /\ firstStored = EmptyTable

NoFn == [trail |-> <<>>, answers |-> <<>>]

Init == InitStore /\ fn = NoFn

\* ------------------------------------------------- quiz.ts: submitAnswer
\* Mutant: the limiter lets one more call through.
Mut_RateExceeded(attempts) == attempts > RATE_LIMIT_PER_MINUTE + 1

\* The limiter's test on the value INCR returned.
RateExceeded(attempts) == attempts > RATE_LIMIT_PER_MINUTE

\* The expiry is set when INCR returned 1.
SetsExpiry(attempts) == attempts = 1

\* Lines 44-63: validation, then INCR rate:<user> and the limiter.
SubmitStart(p, body) ==
  /\ pc[p] \in Finished
  /\ calls < MaxCalls
  /\ calls' = calls + 1
  /\ IF body.answer = ""
     THEN /\ Fail(p, body, "Missing required fields")
          /\ UNCHANGED <<rate, rateExp>>
     ELSE LET attempts == rate[body.userId] + 1 IN
          /\ rate' = [rate EXCEPT ![body.userId] = attempts]
          /\ rateExp' = IF SetsExpiry(attempts)
                        THEN [rateExp EXCEPT ![body.userId] = now + RATE_WINDOW]
                        ELSE rateExp
          /\ IF RateExceeded(attempts)
             THEN Fail(p, body, "Rate limit exceeded")
             ELSE /\ pc' = [pc EXCEPT ![p] = IF body.answerIdempotencyKey = NoKey
                                             THEN "txBegin" ELSE "idemCheck"]
                  /\ req' = [req EXCEPT ![p] = body]
                  /\ loc' = [loc EXCEPT ![p] = NoLoc]
  /\ UNCHANGED <<now, durable, redis_up, idemp, cache_state, zset_score, zset_streak,
                 topv, decays, decayedSince,
                 firstStored, fn>>

\* Mutant: the lookup never finds a stored response.
Mut_HasStored(k) == FALSE

\* Lines 65-68: the idempotency lookup; a stored response is returned as is.
HasStored(k) == k \in DOMAIN idemp

IdemCheck(p) ==
  /\ pc[p] = "idemCheck"
  /\ LET k == req[p].answerIdempotencyKey IN
     IF HasStored(k)
     THEN Return(p, req[p], <<ParseResponse(idemp[k])>>, TRUE)
     ELSE /\ pc' = [pc EXCEPT ![p] = "txBegin"]
          /\ UNCHANGED <<req, loc>>
  /\ UNCHANGED <<now, durable, redisv, hist>>

\* db.ts lines 27-32: an error thrown inside the handler is caught, ROLLBACK
\* gives the row lock back, the error is thrown on to the caller and the
\* finally block releases the client to the pool.
\* Mutant: the error is recorded, but neither ROLLBACK nor release runs.
Mut_Rollback(p, msg) ==
  /\ loc' = [loc EXCEPT ![p].err = msg]
  /\ UNCHANGED <<pc, req>>

Rollback(p, msg) == Fail(p, req[p], msg)

\* Mutant: a version older than the current one is accepted too.
Mut_VersionMatches(sent, current) == sent <= current

\* The optimistic check of line 106.
VersionMatches(sent, current) == sent = current

\* Lines 70-108 with db.ts 20-33: BEGIN, SELECT ... FOR UPDATE (waits for the
\* row lock), the decay of the row read, and the state version check.
\* A throw runs ROLLBACK, which gives the lock back.
TxBegin(p) ==
  /\ pc[p] = "txBegin"
  /\ LET u == req[p].userId IN
     IF u \notin Users
     THEN Rollback(p, "User state not found")
     ELSE /\ RowLockFree(u)
          /\ LET row == user_state[u]
                 decay == DecayDueSubmit(row, now)
                 currentState == IF decay THEN Decayed(row) ELSE row
             IN IF ~VersionMatches(req[p].stateVersion, currentState.stateVersion)
                THEN Rollback(p, "State version mismatch")
                ELSE /\ pc' = [pc EXCEPT ![p] = "txBody"]
                     /\ loc' = [loc EXCEPT ![p].state = currentState,
                                           ![p].decay = decay]
                     /\ req' = req
  /\ UNCHANGED <<now, durable, redisv, hist>>

\* Lines 110-207: the question lookup, the scoring, the adaptive step and
\* the transaction's writes (UPDATE user_state, INSERT answer_log,
\* upsertLeaderboardTx), which stay private to the transaction until COMMIT.
\* The rank counts see the rows other transactions have committed so far.
TxBody(p) ==
  /\ pc[p] = "txBody"
  /\ LET u == req[p].userId
         q == req[p].questionId
         cur == loc[p].state
     IN
     IF q \notin Questions
     THEN Rollback(p, "Question not found")
     ELSE
       LET question == questions[q]
           correct == req[p].answer = question.correct_answer
           newStreak == IF correct THEN cur.streak + 1 ELSE 0
           newMaxStreak == Max(cur.maxStreak, newStreak)
           score == calculateScore(question.difficulty, newStreak, correct)
           scoreDelta == score.value
           newTotalScore == Max(0, cur.totalScore + scoreDelta)
           nxt == computeNextDifficulty(cur.currentDifficulty, correct,
                                        cur.confidence, newStreak)
           newStateVersion == cur.stateVersion + 1
           answeredAt == now
           row == [currentDifficulty |-> nxt.nextDifficulty,
                   streak |-> newStreak, maxStreak |-> newMaxStreak,
                   totalScore |-> newTotalScore,
                   stateVersion |-> newStateVersion,
                   confidence |-> nxt.nextConfidence,
                   lastAnswerAt |-> answeredAt, lastQuestionId |-> q]
           entry == [userId |-> u, questionId |-> q,
                     difficulty |-> question.difficulty,
                     answer |-> req[p].answer, correct |-> correct,
                     scoreDelta |-> scoreDelta, streakAtAnswer |-> newStreak,
                     confidenceAfter |-> nxt.nextConfidence,
                     answeredAt |-> answeredAt]
           response ==
             [correct |-> correct, newDifficulty |-> nxt.nextDifficulty,
              newConfidence |-> nxt.nextConfidence, newStreak |-> newStreak,
              scoreDelta |-> scoreDelta, totalScore |-> newTotalScore,
              stateVersion |-> newStateVersion,
              leaderboardRankScore |->
                RankIn(Upsert(leaderboard_score, u, newTotalScore), newTotalScore),
              leaderboardRankStreak |->
                RankIn(Upsert(leaderboard_streak, u, newMaxStreak), newMaxStreak),
              maxStreak |-> newMaxStreak, answeredAt |-> answeredAt]
       IN
       IF ~score.integral
       THEN Rollback(p, "invalid input syntax for type bigint")
       ELSE /\ pc' = [pc EXCEPT ![p] = "txCommit"]
            /\ loc' = [loc EXCEPT
                 ![p].writes = <<[userId |-> u, row |-> row, entry |-> entry]>>,
                 ![p].result = <<response>>]
            /\ req' = req
  /\ UNCHANGED <<now, durable, redisv, hist>>

\* db.ts line 24: COMMIT.
TxCommit(p) ==
  /\ pc[p] = "txCommit"
  /\ LET w == loc[p].writes[1] IN
     /\ user_state' = CommitUserState(user_state, w)
     /\ answer_log' = CommitAnswerLog(answer_log, w)
     /\ leaderboard_score' = CommitLeaderboardScore(leaderboard_score, w)
     /\ leaderboard_streak' = CommitLeaderboardStreak(leaderboard_streak, w)
  /\ decays' = IF loc[p].decay
                THEN [decays EXCEPT ![req[p].userId] = @ + 1] ELSE decays
  /\ decayedSince' = [decayedSince EXCEPT ![req[p].userId] = FALSE]
  /\ pc' = [pc EXCEPT ![p] = "cacheLeaderboard"]
  /\ loc' = [loc EXCEPT ![p].writes = <<>>]
  /\ UNCHANGED <<now, redisv, req, calls, firstStored, fn>>

\* The UserState written to the cache after the commit (lines 213-222):
\* built from the response, without lastQuestionId.
CacheStateOf(result) ==
  [currentDifficulty |-> result.newDifficulty, streak |-> result.newStreak,
   maxStreak |-> result.maxStreak, totalScore |-> result.totalScore,
   stateVersion |-> result.stateVersion, confidence |-> result.newConfidence,
   lastAnswerAt |-> result.answeredAt, lastQuestionId |-> NoQuestion]

\* leaderboard.ts 137-139: the key of a cached top list; the limit is 10
\* when the caller gives none.
DEFAULT_TOP_LIMIT == 10
TopKinds == {"score", "streak"}
cacheKeyForTop(kind, limit) == <<kind, limit>>

\* DEL of a set of keys.
Del(table, keys) == [k \in DOMAIN table \ keys |-> table[k]]

\* Line 223, leaderboard.ts 93-104: ZADD of the user's member in both sorted
\* sets, then DEL of cacheKeyForTop("score") and cacheKeyForTop("streak").
CacheLeaderboard(p) ==
  /\ pc[p] = "cacheLeaderboard"
  /\ LET r == loc[p].result[1]
         u == req[p].userId
     IN /\ zset_score' = Upsert(zset_score, u, r.totalScore)
        /\ zset_streak' = Upsert(zset_streak, u, CacheStateOf(r).maxStreak)
  /\ cache_top' = Del(cache_top, {cacheKeyForTop(kind, DEFAULT_TOP_LIMIT) :
                                    kind \in TopKinds})
  /\ pc' = [pc EXCEPT ![p] = "cacheState"]
  /\ UNCHANGED <<now, durable, redis_up, rate, rateExp, idemp, cache_state, cache_metrics,
                 req, loc, hist>>

\* Line 224, userState.ts 58-62: updateUserState, SET user_state:<user>.
CacheState(p) ==
  /\ pc[p] = "cacheState"
  /\ cache_state' = Upsert(cache_state, req[p].userId,
                           StringifyState(CacheStateOf(loc[p].result[1])))
  /\ pc' = [pc EXCEPT ![p] = "storeIdem"]
  /\ UNCHANGED <<now, durable, redis_up, rate, rateExp, idemp, zset_score, zset_streak,
                 topv, req, loc, hist>>

\* Lines 225-231: DEL metrics:<user>, storeIdempotency under the key if one
\* was sent, and the return of the response.
StoreIdem(p) ==
  /\ pc[p] = "storeIdem"
  /\ LET k == req[p].answerIdempotencyKey IN
     idemp' = IF k # NoKey
              THEN Upsert(idemp, k, StringifyResponse(loc[p].result[1]))
              ELSE idemp
  /\ LET k == req[p].answerIdempotencyKey IN
     firstStored' = IF k # NoKey /\ k \notin DOMAIN firstStored
                    THEN Upsert(firstStored, k, StringifyResponse(loc[p].result[1]))
                    ELSE firstStored
  /\ cache_metrics' = Del(cache_metrics, {req[p].userId})
  /\ Return(p, req[p], loc[p].result, FALSE)
  /\ UNCHANGED <<now, durable, redis_up, rate, rateExp, cache_state, zset_score,
                 zset_streak, cache_top, calls, decays, decayedSince,
                 fn>>

\* ------------------------------------------- userState.ts: getUserState
hydrateState(row) == row

\* getUserState returns: to the caller of the endpoint, or into
\* getUserMetrics (metrics.ts lines 13-14), which goes on with the state or
\* throws when there is none.
GetReturn(p, body, value) ==
  IF body.op # "metrics"
  THEN Return(p, body, value, FALSE)
  ELSE IF value = <<>>
       THEN Fail(p, body, "User state not found")
       ELSE /\ pc' = [pc EXCEPT ![p] = "metricsQuery"]
            /\ req' = [req EXCEPT ![p] = body]
            /\ loc' = [loc EXCEPT ![p] = [NoLoc EXCEPT !.state = value[1]]]

\* applyDecay's first half: the test, and the decayed copy it goes on with.
AfterRead(p, body, st) ==
  IF DecayDueRead(st, now)
  THEN /\ pc' = [pc EXCEPT ![p] = "getSetDecayed"]
       /\ req' = [req EXCEPT ![p] = body]
       /\ loc' = [loc EXCEPT ![p] = [NoLoc EXCEPT !.state = Decayed(st),
                                                  !.decay = TRUE]]
  ELSE GetReturn(p, body, <<st>>)

\* Lines 31-39: GET user_state:<user>; on a hit, applyDecay of the cached copy.
getUserState(p, body) ==
  IF body.userId \in DOMAIN cache_state
  THEN AfterRead(p, body, ParseState(cache_state[body.userId]))
  ELSE /\ pc' = [pc EXCEPT ![p] = "getQuery"]
       /\ req' = [req EXCEPT ![p] = body]
       /\ loc' = [loc EXCEPT ![p] = NoLoc]

\* GET /v1/quiz/state: a call of getUserState.
GetStart(p, u) ==
  /\ pc[p] \in Finished
  /\ calls < MaxCalls
  /\ calls' = calls + 1
  /\ getUserState(p, [NoBody EXCEPT !.op = "get", !.userId = u, !.stateVersion = 0])
  /\ UNCHANGED <<now, durable, redisv, decays, decayedSince,
                 firstStored, fn>>

\* Lines 41-51: SELECT * FROM user_state, outside any transaction.
GetQuery(p) ==
  /\ pc[p] = "getQuery"
  /\ LET u == req[p].userId IN
     IF u \notin Users
     THEN GetReturn(p, req[p], <<>>)
     ELSE /\ pc' = [pc EXCEPT ![p] = "getFill"]
          /\ loc' = [loc EXCEPT ![p].state = hydrateState(user_state[u])]
          /\ req' = req
  /\ UNCHANGED <<now, durable, redisv, hist>>

\* Lines 53-55: SET user_state:<user> to the row read, then applyDecay.
GetFill(p) ==
  /\ pc[p] = "getFill"
  /\ cache_state' = Upsert(cache_state, req[p].userId, StringifyState(loc[p].state))
  /\ AfterRead(p, req[p], loc[p].state)
  /\ UNCHANGED <<now, durable, redis_up, rate, rateExp, idemp, zset_score, zset_streak,
                 topv, hist>>

\* Line 100: SET user_state:<user> to the decayed copy.
GetSetDecayed(p) ==
  /\ pc[p] = "getSetDecayed"
  /\ cache_state' = Upsert(cache_state, req[p].userId, StringifyState(loc[p].state))
  /\ pc' = [pc EXCEPT ![p] = "getUpdate"]
  /\ UNCHANGED <<now, durable, redis_up, rate, rateExp, idemp, zset_score, zset_streak,
                 topv, req, loc, hist>>

\* Lines 101-104: UPDATE user_state SET streak, confidence, state_version,
\* its own statement on the pool; it waits for the row lock like any UPDATE.
DecayUpdate(row, decayed) ==
  [row EXCEPT !.streak = decayed.streak, !.confidence = decayed.confidence,
              !.stateVersion = decayed.stateVersion]

GetUpdate(p) ==
  /\ pc[p] = "getUpdate"
  /\ LET u == req[p].userId IN
     /\ RowLockFree(u)
     /\ user_state' = [user_state EXCEPT ![u] = DecayUpdate(@, loc[p].state)]
  /\ decays' = [decays EXCEPT ![req[p].userId] = @ + 1]
  /\ decayedSince' = IF loc[p].state.lastAnswerAt = user_state[req[p].userId].lastAnswerAt
                     THEN [decayedSince EXCEPT ![req[p].userId] = TRUE]
                     ELSE decayedSince
  /\ GetReturn(p, req[p], <<loc[p].state>>)
  /\ UNCHANGED <<now, answer_log, leaderboard_score, leaderboard_streak, redisv,
                 calls, firstStored, fn>>

\* ---------------------------------------------- metrics.ts: getUserMetrics
\* JSON.stringify / JSON.parse of the metrics payload.
StringifyMetrics(m) ==
  <<m.currentDifficulty, m.streak, m.maxStreak, m.totalScore, m.confidence,
    m.accuracy, m.difficultyHistogram, m.recentPerformance>>
  \o (IF m.lastQuestionId = NoQuestion THEN <<>> ELSE <<m.lastQuestionId>>)

ParseMetrics(t) ==
  [currentDifficulty |-> t[1], streak |-> t[2], maxStreak |-> t[3],
   totalScore |-> t[4], confidence |-> t[5], accuracy |-> t[6],
   difficultyHistogram |-> t[7], recentPerformance |-> t[8],
   lastQuestionId |-> IF Len(t) > 8 THEN t[9] ELSE NoQuestion]

\* The user's answer_log rows, oldest first.
AnswersOf(u) == SelectSeq(answer_log, LAMBDA e : e.userId = u)

\* ORDER BY answered_at DESC LIMIT 10 of the user's rows.
RECENT_LIMIT == 10
Recent(log) ==
  [i \in 1..Min(Len(log), RECENT_LIMIT) |->
     [correct |-> log[Len(log) + 1 - i].correct,
      difficulty |-> log[Len(log) + 1 - i].difficulty,
      answered_at |-> log[Len(log) + 1 - i].answeredAt]]

\* Lines 7-14: GET metrics:<user>; on a miss, getUserState.
MetricsStart(p, u) ==
  /\ pc[p] \in Finished
  /\ calls < MaxCalls
  /\ calls' = calls + 1
  /\ LET body == [NoBody EXCEPT !.op = "metrics", !.userId = u] IN
     IF u \in DOMAIN cache_metrics
     THEN Return(p, body, <<ParseMetrics(cache_metrics[u])>>, FALSE)
     ELSE getUserState(p, body)
  /\ UNCHANGED <<now, durable, redisv, decays, decayedSince,
                 firstStored, fn>>

\* Lines 16-67: the aggregates over answer_log and the payload.  accuracy
\* is kept as the pair it is the quotient of.
MetricsQuery(p) ==
  /\ pc[p] = "metricsQuery"
  /\ LET log == AnswersOf(req[p].userId)
         state == loc[p].state
         correctCount == Len(SelectSeq(log, LAMBDA e : e.correct))
         levels == {log[i].difficulty : i \in 1..Len(log)}
         payload ==
           [currentDifficulty |-> state.currentDifficulty,
            streak |-> state.streak, maxStreak |-> state.maxStreak,
            totalScore |-> state.totalScore, confidence |-> state.confidence,
            lastQuestionId |-> state.lastQuestionId,
            accuracy |-> IF Len(log) = 0 THEN <<0, 1>> ELSE <<correctCount, Len(log)>>,
            difficultyHistogram |->
              [d \in levels |-> Len(SelectSeq(log, LAMBDA e : e.difficulty = d))],
            recentPerformance |-> Recent(log)]
     IN loc' = [loc EXCEPT ![p].result = <<payload>>]
  /\ pc' = [pc EXCEPT ![p] = "metricsSet"]
  /\ UNCHANGED <<now, durable, redisv, req, hist>>

\* Lines 69-70: SET metrics:<user> for 30 seconds, and the return.
MetricsSet(p) ==
  /\ pc[p] = "metricsSet"
  /\ cache_metrics' = Upsert(cache_metrics, req[p].userId,
                             StringifyMetrics(loc[p].result[1]))
  /\ Return(p, req[p], loc[p].result, FALSE)
  /\ UNCHANGED <<now, durable, redis_up, rate, rateExp, idemp, cache_state, zset_score,
                 zset_streak, cache_top, hist>>

\* ------------------------------------------------ leaderboard.ts: getTop
\* The limits asked for: the default and a smaller one.
TopLimits == {1, DEFAULT_TOP_LIMIT}

\* Line 108: safeLimit.
safeLimit(limit) == Max(1, limit)

\* Redis orders members of equal score by their text: "u1" before "u2".
MemberOrder(u) == IF u = "u1" THEN 1 ELSE 2

\* ZRANGE key 0 n-1 REV WITHSCORES: highest score first, members of equal
\* score in reverse text order.
RECURSIVE zRangeWithScores(_, _)
zRangeWithScores(zset, n) ==
  IF n = 0 \/ DOMAIN zset = {}
  THEN <<>>
  ELSE LET top == CHOOSE u \in DOMAIN zset :
                    \A v \in DOMAIN zset \ {u} :
                      \/ zset[u] > zset[v]
                      \/ zset[u] = zset[v] /\ MemberOrder(u) > MemberOrder(v)
       IN <<[value |-> top, score |-> zset[top]]>>
            \o zRangeWithScores(Del(zset, {top}), n - 1)

\* ZSCORE, with Number(score ?? 0) of lines 126-127.
zScore(zset, member) == IF member \in DOMAIN zset THEN zset[member] ELSE 0

\* JSON.stringify / JSON.parse of a list of LeaderboardEntry.
StringifyEntries(es) ==
  [i \in 1..Len(es) |->
     <<es[i].userId, es[i].totalScore, es[i].maxStreak, es[i].rank>>]

ParseEntries(t) ==
  [i \in 1..Len(t) |->
     [userId |-> t[i][1], totalScore |-> t[i][2], maxStreak |-> t[i][3],
      rank |-> t[i][4]]]

\* getTopByScore and getTopByStreak (lines 53-59).
TopOp(kind) == IF kind = "score" THEN "getTopByScore" ELSE "getTopByStreak"
KindOf(op) == IF op = "getTopByScore" THEN "score" ELSE "streak"
TopKeyOf(body) == cacheKeyForTop(KindOf(body.op), safeLimit(body.limit))

\* Lines 106-114: GET of the cached list; a hit is returned as it is.
GetTopStart(p, kind, limit) ==
  /\ pc[p] \in Finished
  /\ calls < MaxCalls
  /\ calls' = calls + 1
  /\ LET body == [NoBody EXCEPT !.op = TopOp(kind), !.limit = limit] IN
     IF TopKeyOf(body) \in DOMAIN cache_top
     THEN Return(p, body, <<ParseEntries(cache_top[TopKeyOf(body)])>>, FALSE)
     ELSE /\ pc' = [pc EXCEPT ![p] = "topRange"]
          /\ req' = [req EXCEPT ![p] = body]
          /\ loc' = [loc EXCEPT ![p] = NoLoc]
  /\ UNCHANGED <<now, durable, redisv, decays, decayedSince,
                 firstStored, fn>>

\* Line 116: the range read of the dimension's sorted set.
GetTopRange(p) ==
  /\ pc[p] = "topRange"
  /\ LET zset == IF KindOf(req[p].op) = "score" THEN zset_score ELSE zset_streak
     IN loc' = [loc EXCEPT ![p].rows = zRangeWithScores(zset, safeLimit(req[p].limit))]
  /\ pc' = [pc EXCEPT ![p] = "topScores"]
  /\ UNCHANGED <<now, durable, redisv, req, hist>>

\* Lines 117-131: the ZSCORE of each member in the other sorted set, and the
\* entries with rank = index + 1.
GetTopScores(p) ==
  /\ pc[p] = "topScores"
  /\ LET raw == loc[p].rows
         kind == KindOf(req[p].op)
         entries ==
           [i \in 1..Len(raw) |->
              [userId |-> raw[i].value,
               totalScore |-> IF kind = "score" THEN raw[i].score
                              ELSE zScore(zset_score, raw[i].value),
               maxStreak |-> IF kind = "streak" THEN raw[i].score
                             ELSE zScore(zset_streak, raw[i].value),
               rank |-> i]]
     IN loc' = [loc EXCEPT ![p].result = <<entries>>]
  /\ pc' = [pc EXCEPT ![p] = "topSet"]
  /\ UNCHANGED <<now, durable, redisv, req, hist>>

\* Lines 133-134: SET of the list under its key for 30 seconds, and the return.
GetTopSet(p) ==
  /\ pc[p] = "topSet"
  /\ cache_top' = Upsert(cache_top, TopKeyOf(req[p]),
                         StringifyEntries(loc[p].result[1]))
  /\ Return(p, req[p], loc[p].result, FALSE)
  /\ UNCHANGED <<now, durable, redis_up, rate, rateExp, idemp, cache_state, zset_score,
                 zset_streak, cache_metrics, hist>>

\* ----------------------------------------------- leaderboard.ts: getRank
\* COALESCE((SELECT value WHERE user_id = $1), -1): the user's own value, or
\* -1 when the user has no row.
NO_ROW_VALUE == -1
OwnValue(table, u) == IF u \in DOMAIN table THEN table[u] ELSE NO_ROW_VALUE

\* null
NoRank == 0

\* GET /v1/leaderboard/rank: getRank starts its two COUNT queries together.
RankStart(p, u) ==
  /\ pc[p] \in Finished
  /\ calls < MaxCalls
  /\ calls' = calls + 1
  /\ pc' = [pc EXCEPT ![p] = "rankBoth"]
  /\ req' = [req EXCEPT ![p] = [NoBody EXCEPT !.op = "rank", !.userId = u]]
  /\ loc' = [loc EXCEPT ![p] = NoLoc]
  /\ UNCHANGED <<now, durable, redisv, decays, decayedSince,
                 firstStored, fn>>

\* Lines 63-68: the COUNT over leaderboard_score; it runs before or after
\* the one over leaderboard_streak.
RankScoreQuery(p) ==
  /\ pc[p] \in {"rankBoth", "rankScoreLeft"}
  /\ LET own == OwnValue(leaderboard_score, req[p].userId) IN
     loc' = [loc EXCEPT ![p].rows =
               Upsert(Upsert(@, "scoreOwn", own),
                      "scoreRank", RankIn(leaderboard_score, own))]
  /\ pc' = [pc EXCEPT ![p] = IF pc[p] = "rankBoth" THEN "rankStreakLeft"
                                                   ELSE "hasScore"]
  /\ UNCHANGED <<now, durable, redisv, req, hist>>

\* Lines 69-74: the COUNT over leaderboard_streak.
RankStreakQuery(p) ==
  /\ pc[p] \in {"rankBoth", "rankStreakLeft"}
  /\ LET own == OwnValue(leaderboard_streak, req[p].userId) IN
     loc' = [loc EXCEPT ![p].rows =
               Upsert(Upsert(@, "streakOwn", own),
                      "streakRank", RankIn(leaderboard_streak, own))]
  /\ pc' = [pc EXCEPT ![p] = IF pc[p] = "rankBoth" THEN "rankScoreLeft"
                                                   ELSE "hasScore"]
  /\ UNCHANGED <<now, durable, redisv, req, hist>>

\* Lines 78-81: SELECT EXISTS over leaderboard_score.
HasScore(p) ==
  /\ pc[p] = "hasScore"
  /\ loc' = [loc EXCEPT ![p].rows =
               Upsert(@, "hasScore", req[p].userId \in DOMAIN leaderboard_score)]
  /\ pc' = [pc EXCEPT ![p] = "hasStreak"]
  /\ UNCHANGED <<now, durable, redisv, req, hist>>

\* Lines 82-90: SELECT EXISTS over leaderboard_streak, and the result.
HasStreak(p) ==
  /\ pc[p] = "hasStreak"
  /\ LET got == loc[p].rows
         hasStreak == req[p].userId \in DOMAIN leaderboard_streak
     IN Return(p, req[p],
               <<[leaderboardRankScore |->
                    IF got["hasScore"] THEN got["scoreRank"] ELSE NoRank,
                  leaderboardRankStreak |->
                    IF hasStreak THEN got["streakRank"] ELSE NoRank]>>,
               FALSE)
  /\ UNCHANGED <<now, durable, redisv, hist>>

\* ------------------------------------------------------------------ time
\* Redis drops rate:<user> when its expiry is reached, and the top lists and
\* metrics, which live 30 seconds, at every move of the clock.  The other
\* keys live an hour (user state) or a day (idempotency), longer than MaxTime
\* minutes.
\* A request lasts far less than a clock period: the clock moves between
\* requests.
Tick(d) ==
  /\ now + d <= MaxTime
  /\ \A p \in Procs : pc[p] \in Finished
  /\ now' = now + d
  /\ LET gone == {u \in UserIds : rateExp[u] # NoTime /\ rateExp[u] <= now'} IN
     /\ rate' = [u \in UserIds |-> IF u \in gone THEN 0 ELSE rate[u]]
     /\ rateExp' = [u \in UserIds |-> IF u \in gone THEN NoTime ELSE rateExp[u]]
  /\ cache_top' = EmptyTable
  /\ cache_metrics' = EmptyTable
  /\ UNCHANGED <<durable, redis_up, idemp, cache_state, zset_score, zset_streak, procv, hist>>

\* ---------------------------------------------------------- specification
\* The calls the model makes: every well-formed answer of u1, the answers of
\* a second user u2, and one call for each way a request can be unusable.
SubmitBodies ==
  [op : {"submit"}, userId : {"u1"}, questionId : Questions,
   answer : Answers \ {""}, stateVersion : VersionInputs("u1"),
   answerIdempotencyKey : Keys \cup {NoKey}, stored : {FALSE}, limit : {0}]
  \cup [op : {"submit"}, userId : {"u2"}, questionId : Questions,
        answer : Answers \ {""}, stateVersion : {user_state["u2"].stateVersion},
        answerIdempotencyKey : {NoKey}, stored : {FALSE}, limit : {0}]
  \cup {[op |-> "submit", userId |-> "u1", questionId |-> "qx", answer |-> "a",
         stateVersion |-> user_state["u1"].stateVersion,
         answerIdempotencyKey |-> "k1", stored |-> FALSE, limit |-> 0],
        [op |-> "submit", userId |-> "u1", questionId |-> "q1", answer |-> "",
         stateVersion |-> user_state["u1"].stateVersion,
         answerIdempotencyKey |-> "k1", stored |-> FALSE, limit |-> 0],
        [op |-> "submit", userId |-> "nobody", questionId |-> "q1", answer |-> "a",
         stateVersion |-> 1, answerIdempotencyKey |-> NoKey, stored |-> FALSE,
         limit |-> 0]}

\* The call as the model follows it: stored records (history) whether a
\* response was stored under the call's key when the call arrived.
Arriving(b) == [b EXCEPT !.stored = b.answerIdempotencyKey \in DOMAIN idemp]

Next ==
  \/ \E p \in Procs, body \in SubmitBodies : SubmitStart(p, Arriving(body))
  \/ \E p \in Procs : IdemCheck(p)
  \/ \E p \in Procs : TxBegin(p)
  \/ \E p \in Procs : TxBody(p)
  \/ \E p \in Procs : TxCommit(p)
  \/ \E p \in Procs : CacheLeaderboard(p)
  \/ \E p \in Procs : CacheState(p)
  \/ \E p \in Procs : StoreIdem(p)
  \/ \E p \in Procs, u \in UserIds : GetStart(p, u)
  \/ \E p \in Procs : GetQuery(p)
  \/ \E p \in Procs : GetFill(p)
  \/ \E p \in Procs : GetSetDecayed(p)
  \/ \E p \in Procs : GetUpdate(p)
  \/ \E d \in TickSteps : Tick(d)

Spec == Init /\ [][Next]_vars

\* Executions in which only submitAnswer is called.
NextSubmit ==
  \/ \E p \in Procs, body \in SubmitBodies : SubmitStart(p, Arriving(body))
  \/ \E p \in Procs : IdemCheck(p)
  \/ \E p \in Procs : TxBegin(p)
  \/ \E p \in Procs : TxBody(p)
  \/ \E p \in Procs : TxCommit(p)
  \/ \E p \in Procs : CacheLeaderboard(p)
  \/ \E p \in Procs : CacheState(p)
  \/ \E p \in Procs : StoreIdem(p)
  \/ \E d \in TickSteps : Tick(d)

SpecSubmit == Init /\ [][NextSubmit]_vars

\* The submissions that reach the transaction: answers of u1 and of u2 to a
\* question that exists or not, with the current state version or another
\* one, and a submission for a user without a user_state row.
LockBodies ==
  [op : {"submit"}, userId : {"u1"}, questionId : Questions \cup {"qx"},
   answer : Answers \ {""}, stateVersion : VersionInputs("u1"),
   answerIdempotencyKey : {NoKey}, stored : {FALSE}, limit : {0}]
  \cup [op : {"submit"}, userId : {"u2"}, questionId : Questions,
        answer : Answers \ {""}, stateVersion : {user_state["u2"].stateVersion},
        answerIdempotencyKey : {NoKey}, stored : {FALSE}, limit : {0}]
  \cup {[op |-> "submit", userId |-> "nobody", questionId |-> "q1", answer |-> "a",
         stateVersion |-> 1, answerIdempotencyKey |-> NoKey, stored |-> FALSE,
         limit |-> 0]}

\* Overlapping submitAnswer calls.
NextLive ==
  \/ \E p \in Procs, body \in LockBodies : SubmitStart(p, body)
  \/ \E p \in Procs : TxBegin(p)
  \/ \E p \in Procs : TxBody(p)
  \/ \E p \in Procs : TxCommit(p)
  \/ \E p \in Procs : CacheLeaderboard(p)
  \/ \E p \in Procs : CacheState(p)
  \/ \E p \in Procs : StoreIdem(p)

\* Fair scheduling: a transaction whose next statement can run does run it.
\* Node runs the continuation of an awaited query once the query has
\* returned, and PostgreSQL runs a statement once the lock it waits for is
\* free.
Fairness ==
  \A p \in Procs :
    /\ WF_vars(TxBegin(p))
    /\ WF_vars(TxBody(p))
    /\ WF_vars(TxCommit(p))

SpecLive == Init /\ [][NextLive]_vars /\ Fairness

\* Executions without overlapping requests: one request at a time, each
\* started after the one before it has returned.
NextSeq ==
  \/ \E body \in SubmitBodies : SubmitStart("p1", Arriving(body))
  \/ IdemCheck("p1")
  \/ TxBegin("p1")
  \/ TxBody("p1")
  \/ TxCommit("p1")
  \/ CacheLeaderboard("p1")
  \/ CacheState("p1")
  \/ StoreIdem("p1")
  \/ \E u \in UserIds : GetStart("p1", u)
  \/ GetQuery("p1")
  \/ GetFill("p1")
  \/ GetSetDecayed("p1")
  \/ GetUpdate("p1")
  \/ \E u \in Users : MetricsStart("p1", u)
  \/ MetricsQuery("p1")
  \/ MetricsSet("p1")
  \/ \E kind \in TopKinds, limit \in TopLimits : GetTopStart("p1", kind, limit)
  \/ GetTopRange("p1")
  \/ GetTopScores("p1")
  \/ GetTopSet("p1")
  \/ \E d \in TickSteps : Tick(d)

SpecSeq == Init /\ [][NextSeq]_vars

\* ------------------------------------------------- redis.ts: a Redis outage
\* The positions at which a handler awaits a Redis command.
RedisSteps ==
  {"idemCheck", "cacheLeaderboard", "cacheState", "storeIdem", "getFill",
   "getSetDecayed"}

\* The rejection of a command by the client (connection lost).
REDIS_ERROR == "Redis connection error"

\* The server stops answering.
Outage ==
  /\ redis_up
  /\ redis_up' = FALSE
  /\ UNCHANGED <<now, durable, rate, rateExp, idemp, cache_state, zset_score,
                 zset_streak, topv, procv, hist>>

\* An awaited Redis command is rejected: no handler catches it (quiz.ts
\* 55-68 and 223-229, userState.ts 31-39, 53 and 100), so the call throws.
\* The other outcome, a command that stays queued in the client, is the
\* handler taking no step.
RedisThrows(p) ==
  /\ ~redis_up
  /\ pc[p] \in RedisSteps
  /\ Fail(p, req[p], REDIS_ERROR)
  /\ UNCHANGED <<now, durable, redisv, hist>>

\* A call that arrives during the outage: its first Redis command (INCR at
\* quiz.ts 57, GET at userState.ts 35) is rejected.
CallDuringOutage(p, body) ==
  /\ ~redis_up
  /\ pc[p] \in Finished
  /\ calls < MaxCalls
  /\ calls' = calls + 1
  /\ body.op = "submit" => body.answer # ""
  /\ Fail(p, body, REDIS_ERROR)
  /\ UNCHANGED <<now, durable, redisv, decays, decayedSince, firstStored, fn>>

GetBodies == {[NoBody EXCEPT !.op = "get", !.userId = u] : u \in UserIds}

\* One request at a time, with a Redis outage that may begin at any moment.
\* The PostgreSQL steps go on during the outage.
NextOutage ==
  \/ redis_up /\ \E body \in SubmitBodies : SubmitStart("p1", Arriving(body))
  \/ redis_up /\ IdemCheck("p1")
  \/ TxBegin("p1")
  \/ TxBody("p1")
  \/ TxCommit("p1")
  \/ redis_up /\ CacheLeaderboard("p1")
  \/ redis_up /\ CacheState("p1")
  \/ redis_up /\ StoreIdem("p1")
  \/ redis_up /\ \E u \in UserIds : GetStart("p1", u)
  \/ GetQuery("p1")
  \/ redis_up /\ GetFill("p1")
  \/ redis_up /\ GetSetDecayed("p1")
  \/ GetUpdate("p1")
  \/ Outage
  \/ RedisThrows("p1")
  \/ \E body \in SubmitBodies \cup GetBodies : CallDuringOutage("p1", body)
  \/ \E d \in TickSteps : Tick(d)

SpecOutage == Init /\ [][NextOutage]_vars

\* ------------------------------------------ a client that reads, then submits
\* GET /v1/quiz/next answers with the stateVersion of the state getUserState
\* returned (server, lines 39-74); the client sends it back with its answer.
\* follows records (history) that the call comes right after such a read of
\* the same user and carries the version read.
JustRead(u) ==
  /\ pc["p1"] = "done"
  /\ req["p1"].op = "get"
  /\ req["p1"].userId = u
  /\ loc["p1"].result # <<>>

Following(body) ==
  body @@ [follows |-> /\ JustRead(body.userId)
                       /\ body.stateVersion = loc["p1"].result[1].stateVersion]

\* One request at a time; the clock does not move between a read and the
\* request after it.
NextRead ==
  \/ \E body \in SubmitBodies : SubmitStart("p1", Following(Arriving(body)))
  \/ IdemCheck("p1")
  \/ TxBegin("p1")
  \/ TxBody("p1")
  \/ TxCommit("p1")
  \/ CacheLeaderboard("p1")
  \/ CacheState("p1")
  \/ StoreIdem("p1")
  \/ \E u \in UserIds : GetStart("p1", u)
  \/ GetQuery("p1")
  \/ GetFill("p1")
  \/ GetSetDecayed("p1")
  \/ GetUpdate("p1")
  \/ \E d \in TickSteps : (\A u \in UserIds : ~JustRead(u)) /\ Tick(d)

SpecRead == Init /\ [][NextRead]_vars

\* ------------------------------------------- a token used by a second user
\* The calls of SubmitBodies, and the answers of u2 sent under u1's token.
TokenBodies ==
  SubmitBodies
  \cup [op : {"submit"}, userId : {"u2"}, questionId : Questions,
        answer : Answers \ {""}, stateVersion : {user_state["u2"].stateVersion},
        answerIdempotencyKey : Keys, stored : {FALSE}, limit : {0}]

\* submitAnswer calls, one at a time.
NextTokens ==
  \/ \E body \in TokenBodies : SubmitStart("p1", Arriving(body))
  \/ IdemCheck("p1")
  \/ TxBegin("p1")
  \/ TxBody("p1")
  \/ TxCommit("p1")
  \/ CacheLeaderboard("p1")
  \/ CacheState("p1")
  \/ StoreIdem("p1")
  \/ \E d \in TickSteps : Tick(d)

SpecTokens == Init /\ [][NextTokens]_vars

\* The answers sent while the leaderboard is read: without idempotency key.
BoardBodies ==
  {b \in SubmitBodies :
     b.answerIdempotencyKey = NoKey /\ b.userId \in Users}

\* submitAnswer calls together with getTop calls.
NextTop ==
  \/ \E p \in Procs, body \in BoardBodies : SubmitStart(p, Arriving(body))
  \/ \E p \in Procs : TxBegin(p)
  \/ \E p \in Procs : TxBody(p)
  \/ \E p \in Procs : TxCommit(p)
  \/ \E p \in Procs : CacheLeaderboard(p)
  \/ \E p \in Procs : CacheState(p)
  \/ \E p \in Procs : StoreIdem(p)
  \/ \E p \in Procs, kind \in TopKinds, limit \in TopLimits :
       GetTopStart(p, kind, limit)
  \/ \E p \in Procs : GetTopRange(p)
  \/ \E p \in Procs : GetTopScores(p)
  \/ \E p \in Procs : GetTopSet(p)

SpecTop == Init /\ [][NextTop]_vars

\* submitAnswer calls together with getRank calls.
NextRank ==
  \/ \E p \in Procs, body \in BoardBodies : SubmitStart(p, Arriving(body))
  \/ \E p \in Procs : TxBegin(p)
  \/ \E p \in Procs : TxBody(p)
  \/ \E p \in Procs : TxCommit(p)
  \/ \E p \in Procs : CacheLeaderboard(p)
  \/ \E p \in Procs : CacheState(p)
  \/ \E p \in Procs : StoreIdem(p)
  \/ \E p \in Procs, u \in Users : RankStart(p, u)
  \/ \E p \in Procs : RankScoreQuery(p)
  \/ \E p \in Procs : RankStreakQuery(p)
  \/ \E p \in Procs : HasScore(p)
  \/ \E p \in Procs : HasStreak(p)

SpecRank == Init /\ [][NextRank]_vars

\* --------------------------------------------- the adaptive step on its own
\* quiz.ts lines 123 and 129-134: the new streak and computeNextDifficulty,
\* as submitAnswer applies them to the state it read.
AdaptiveStep(cur, correct) ==
  LET newStreak == IF correct THEN cur.streak + 1 ELSE 0
      nxt == computeNextDifficulty(cur.currentDifficulty, correct,
                                   cur.confidence, newStreak)
  IN [currentDifficulty |-> nxt.nextDifficulty,
      confidence |-> nxt.nextConfidence, streak |-> newStreak]

\* The states the runs start from: every difficulty level, every confidence
\* clampConfidence lets through, and the streaks up to MaxStreakInput.
AdaptiveInputs ==
  [currentDifficulty : MIN_DIFFICULTY..MAX_DIFFICULTY,
   confidence : (-CONFIDENCE_UP_THRESHOLD)..CONFIDENCE_UP_THRESHOLD,
   streak : 0..MaxStreakInput]

InitAdaptive ==
  /\ InitStore
  /\ \E st \in AdaptiveInputs : fn = [trail |-> <<st>>, answers |-> <<>>]

\* One more committed answer, right or wrong.
Answer(correct) ==
  /\ Len(fn.answers) < MaxAnswers
  /\ fn' = [trail |-> Append(fn.trail, AdaptiveStep(fn.trail[Len(fn.trail)], correct)),
            answers |-> Append(fn.answers, correct)]
  /\ UNCHANGED <<now, durable, redisv, procv, calls, decays, decayedSince,
                 firstStored>>

NextAdaptive ==
  \/ Answer(TRUE)
  \/ Answer(FALSE)

SpecAdaptive == InitAdaptive /\ [][NextAdaptive]_vars

\* ------------------------------------- the level steps with inactivity decay
\* The three level fields of a state.
Levels(st) ==
  [currentDifficulty |-> st.currentDifficulty, confidence |-> st.confidence,
   streak |-> st.streak]

\* A state with these levels whose last answer is long enough ago for both
\* decay tests to look at the rest.
Inactive(cur) == cur @@ [lastAnswerAt |-> 0, stateVersion |-> 1]
LongAfter == Max(INACTIVITY_DECAY_MS, STREAK_DECAY_MS) + 1

\* quiz.ts lines 85-104 and 123-134: a committed submission after a pause
\* (inactive) or right after the last answer.
SubmitLevels(cur, correct, inactive) ==
  LET row == Inactive(cur)
      currentState == IF inactive /\ DecayDueSubmit(row, LongAfter)
                      THEN Decayed(row) ELSE row
  IN AdaptiveStep(currentState, correct)

\* applyDecay (userState.ts) of a state read after a pause.
ReadLevels(cur) ==
  LET row == Inactive(cur)
  IN IF DecayDueRead(row, LongAfter) THEN Levels(Decayed(row)) ELSE cur

SubmitStep(correct, inactive) ==
  /\ Len(fn.trail) <= MaxSteps
  /\ fn' = [trail |-> Append(fn.trail,
                              SubmitLevels(fn.trail[Len(fn.trail)], correct, inactive)),
            answers |-> Append(fn.answers, correct)]
  /\ UNCHANGED <<now, durable, redisv, procv, calls, decays, decayedSince,
                 firstStored>>

ReadStep ==
  /\ Len(fn.trail) <= MaxSteps
  /\ ReadLevels(fn.trail[Len(fn.trail)]) # fn.trail[Len(fn.trail)]
  /\ fn' = [fn EXCEPT !.trail = Append(@, ReadLevels(fn.trail[Len(fn.trail)]))]
  /\ UNCHANGED <<now, durable, redisv, procv, calls, decays, decayedSince,
                 firstStored>>

NextLevels ==
  \/ \E correct \in BOOLEAN, inactive \in BOOLEAN : SubmitStep(correct, inactive)
  \/ ReadStep

SpecLevels == InitAdaptive /\ [][NextLevels]_vars

\* --------------------------------------------------- calculateScore on its own
\* The arguments submitAnswer can pass: a question's difficulty, the
\* post-answer streak, and whether the answer was right.
ScoreInputs ==
  [difficulty : MIN_DIFFICULTY..MAX_DIFFICULTY, streak : 0..MaxStreakScore,
   correct : BOOLEAN]

InitScore ==
  /\ InitStore
  /\ \E in \in ScoreInputs : fn = [input |-> in, output |-> <<>>]

\* quiz.ts line 126: the call of calculateScore.
Score ==
  /\ fn.output = <<>>
  /\ fn' = [fn EXCEPT !.output =
              <<calculateScore(fn.input.difficulty, fn.input.streak, fn.input.correct)>>]
  /\ UNCHANGED <<now, durable, redisv, procv, calls, decays, decayedSince,
                 firstStored>>

NextScore == Score

SpecScore == InitScore /\ [][NextScore]_vars

\* ================================================================ claims
\* The request slot p runs a submitAnswer call in this step.
SubmitMoves(p) ==
  /\ <<pc[p], req[p], loc[p]>>' # <<pc[p], req[p], loc[p]>>
  /\ IF pc[p] \in Finished THEN req'[p].op = "submit" ELSE req[p].op = "submit"

LogOf(u) == SelectSeq(answer_log, LAMBDA e : e.userId = u)

\* The step is the COMMIT of p's transaction and makes all its writes
\* durable: the user's row, one more answer_log entry, both leaderboard rows.
CommitsAll(p) ==
  LET u == req[p].userId IN
  /\ pc[p] = "txCommit"
  /\ user_state'[u] # user_state[u]
  /\ \A x \in Users \ {u} : user_state'[x] = user_state[x]
  /\ Len(answer_log') = Len(answer_log) + 1
  /\ SubSeq(answer_log', 1, Len(answer_log)) = answer_log
  /\ answer_log'[Len(answer_log')].userId = u
  /\ answer_log'[Len(answer_log')].streakAtAnswer = user_state'[u].streak
  /\ u \in DOMAIN leaderboard_score' /\ u \in DOMAIN leaderboard_streak'
  /\ leaderboard_score'[u] = user_state'[u].totalScore
  /\ leaderboard_streak'[u] = user_state'[u].maxStreak
  /\ \A x \in DOMAIN leaderboard_score' \ {u} :
       x \in DOMAIN leaderboard_score /\ leaderboard_score'[x] = leaderboard_score[x]
  /\ \A x \in DOMAIN leaderboard_streak' \ {u} :
       x \in DOMAIN leaderboard_streak /\ leaderboard_streak'[x] = leaderboard_streak[x]

\* C1: submitAnswer is all-or-nothing on the durable store.  Every step of
\* a submitAnswer call either leaves user_state, answer_log and both
\* leaderboard tables exactly as they were, or is the commit that changes the
\* user's row, appends exactly one answer_log entry and upserts both
\* leaderboard rows at once; a step that ends the call in an error is of the
\* first kind.
C1_AllOrNothing ==
  [][\A p \in Procs :
       SubmitMoves(p) =>
         /\ CommitsAll(p) \/ UNCHANGED durable
         /\ pc'[p] = "failed" => UNCHANGED durable]_vars

\* C1 witness: one call has committed, another has failed in its
\* transaction, and the failed one left the committed state in place.
C1_Witness ==
  \E p, q \in Procs :
    /\ pc[p] = "failed" /\ loc[p].err = "Question not found"
    /\ pc[q] = "cacheLeaderboard"
    /\ Len(answer_log) = 1
    /\ user_state[req[q].userId].stateVersion = 2

\* The state that applying the logged answers of one user one at a time,
\* in log order, leads to: the score with its floor at 0, the streak of the
\* last answer, the highest streak.
RECURSIVE ScoreAfter(_)
ScoreAfter(log) ==
  IF log = <<>> THEN DEFAULT_STATE.totalScore
  ELSE Max(0, ScoreAfter(SubSeq(log, 1, Len(log) - 1)) + log[Len(log)].scoreDelta)

RECURSIVE MaxStreakAfter(_)
MaxStreakAfter(log) ==
  IF log = <<>> THEN DEFAULT_STATE.maxStreak
  ELSE Max(MaxStreakAfter(SubSeq(log, 1, Len(log) - 1)), log[Len(log)].streakAtAnswer)

\* C2: submitAnswer calls of one user that run concurrently and commit take
\* effect one at a time.  In every state reached by submitAnswer calls alone,
\* each user's state_version is the initial version plus the number of the
\* user's answer_log entries plus the number of decay bumps, and the row is
\* what the logged answers applied in log order give: no score or streak
\* effect is lost or applied twice.
C2_SerialSubmissions ==
  \A u \in Users :
    LET log == LogOf(u) IN
    /\ user_state[u].stateVersion
         = DEFAULT_STATE.stateVersion + Len(log) + decays[u]
    /\ user_state[u].totalScore = ScoreAfter(log)
    /\ user_state[u].maxStreak = MaxStreakAfter(log)
    /\ log # <<>> =>
         /\ user_state[u].streak = log[Len(log)].streakAtAnswer
         /\ user_state[u].confidence = log[Len(log)].confidenceAfter
         /\ user_state[u].lastAnswerAt = log[Len(log)].answeredAt
    /\ \A i \in 1..Len(log) : \A j \in 1..Len(log) :
         i < j => log[i].answeredAt <= log[j].answeredAt

\* C2 witness: two calls of u1 were in flight together and both committed,
\* the second one carrying the version the first one produced.
C2_Witness ==
  /\ Len(LogOf("u1")) = 2
  /\ \A p \in Procs :
       req[p].userId = "u1" /\ pc[p] \in {"cacheLeaderboard", "cacheState", "storeIdem"}
  /\ user_state["u1"].stateVersion = 3

\* C3: submitAnswer commits only when the stateVersion sent equals the
\* user's authoritative state_version, read under the row lock and after the
\* decay bump if decay is due.  With that value the call goes on to its
\* writes, and at COMMIT the row still carries the version read under the
\* lock; with any other value the call fails with "State version mismatch"
\* and the durable state is untouched.
C3_VersionGate ==
  [][\A p \in Procs :
       SubmitMoves(p) /\ req[p].userId \in Users =>
         LET u == req[p].userId
             row == user_state[u]
             authoritative == row.stateVersion
                              + (IF DecayDueSubmit(row, now) THEN 1 ELSE 0)
         IN
         /\ pc[p] = "txBegin" =>
              IF req[p].stateVersion = authoritative
              THEN pc'[p] = "txBody"
              ELSE /\ pc'[p] = "failed"
                   /\ loc'[p].err = "State version mismatch"
                   /\ UNCHANGED durable
         /\ pc[p] = "txCommit" =>
              /\ req[p].stateVersion
                   = row.stateVersion + (IF loc[p].decay THEN 1 ELSE 0)
              /\ user_state'[u].stateVersion = req[p].stateVersion + 1]_vars

\* C3 witness: a call sent the version it had read, another submission of
\* the same user committed first, and the call failed with the version one
\* less than the authoritative one.
C3_Witness ==
  \E p \in Procs :
    /\ pc[p] = "failed" /\ loc[p].err = "State version mismatch"
    /\ req[p].userId \in Users
    /\ req[p].stateVersion = user_state[req[p].userId].stateVersion - 1
    /\ LogOf(req[p].userId) # <<>>

InTransactionOrAfter ==
  {"txBegin", "txBody", "txCommit", "cacheLeaderboard", "cacheState", "storeIdem"}

\* C4: idempotent replay.  Once a submitAnswer call carrying a key has
\* completed successfully, a later call carrying that key (one that arrives
\* when a response is stored under it) opens no transaction of its own, and
\* the response it returns is identical to the first response stored under
\* the key.
C4_ReplayReturnsFirstResponse ==
  \A p \in Procs :
    req[p].op = "submit" /\ req[p].stored =>
      /\ pc[p] \notin InTransactionOrAfter
      /\ pc[p] = "done" =>
           loc[p].result = <<ParseResponse(firstStored[req[p].answerIdempotencyKey])>>

\* C5: the durable state_version of a user never decreases, and every
\* durable change to the user's row strictly increases it.
C5_VersionStrictlyIncreases ==
  [][\A u \in Users :
       /\ user_state'[u].stateVersion >= user_state[u].stateVersion
       /\ user_state'[u] # user_state[u] =>
            user_state'[u].stateVersion > user_state[u].stateVersion]_vars

\* C6: when a submitAnswer call finds decay due and then fails the state
\* version check, the decayed streak, the decayed confidence and the bumped
\* state_version are persisted in the user's row.
C6_DecayPersistedOnMismatch ==
  [][\A p \in Procs :
       /\ pc[p] = "txBegin" /\ req[p].userId \in Users
       /\ DecayDueSubmit(user_state[req[p].userId], now)
       /\ pc'[p] = "failed" /\ loc'[p].err = "State version mismatch"
       => user_state'[req[p].userId] = Decayed(user_state[req[p].userId])]_vars

\* C7 as stated: a submitAnswer call whose idempotency token already has a
\* stored response never fails, and returns as a replay.
C7_ReplayBypassesEverything ==
  \A p \in Procs :
    req[p].op = "submit" /\ req[p].stored =>
      /\ pc[p] # "failed"
      /\ pc[p] = "done" => loc[p].replay

\* The errors raised before the idempotency lookup.
BeforeLookupErrors == {"Missing required fields", "Rate limit exceeded"}

\* C7 amended: a submitAnswer call whose idempotency token already has a
\* stored response, once it has passed input validation and the rate limiter,
\* returns the stored response at the lookup without touching the durable
\* store, never enters the transaction, and so never fails with a not-found
\* or version-conflict error; the only errors it can end with are the
\* validation and rate-limit errors raised before the lookup.
C7_ReplayAfterLimiter ==
  [][\A p \in Procs :
       /\ pc[p] = "idemCheck" /\ pc'[p] # "idemCheck"
          /\ req[p].answerIdempotencyKey \in DOMAIN idemp
          => /\ pc'[p] = "done"
             /\ loc'[p].replay
             /\ loc'[p].result = <<ParseResponse(idemp[req[p].answerIdempotencyKey])>>
             /\ UNCHANGED <<durable, redisv>>
       /\ req'[p].op = "submit" /\ req'[p].stored
          => /\ pc'[p] \notin InTransactionOrAfter
             /\ pc'[p] = "failed" => loc'[p].err \in BeforeLookupErrors]_vars

\* C7 witness: a call that arrived with a stored response under its key and
\* with a state version the row no longer has, has returned the stored
\* response as a replay.
C7_Witness ==
  \E p \in Procs :
    /\ req[p].op = "submit" /\ req[p].stored
    /\ pc[p] = "done" /\ loc[p].replay
    /\ req[p].stateVersion # user_state[req[p].userId].stateVersion
    /\ loc[p].result[1].stateVersion = user_state[req[p].userId].stateVersion

\* In this step the request slot p, and no other, may have changed.
OnlyMoves(p) ==
  \A q \in Procs \ {p} : <<pc[q], req[q], loc[q]>>' = <<pc[q], req[q], loc[q]>>

\* C8: per-user rate limiting.  The counter of a user changes only by one
\* submitAnswer call of that user adding 1 to it, or by its window expiring;
\* a call gets past the limiter only with a count of at most 20, and a call
\* that brings the count above 20 fails with the rate-limit error with no
\* idempotency lookup and no durable change; the expiry is set only by the
\* increment from 0 to 1, one window ahead; when the expiry is reached the
\* count starts again at 0; the counters of other users stay as they are.
C8_RateLimit ==
  [][/\ now' = now /\ rate' # rate =>
          \E p \in Procs, u \in UserIds :
            /\ OnlyMoves(p)
            /\ pc[p] \in Finished
            /\ req'[p].op = "submit" /\ req'[p].userId = u
            /\ rate' = [rate EXCEPT ![u] = rate[u] + 1]
            /\ IF rate'[u] > RATE_LIMIT_PER_MINUTE
               THEN /\ pc'[p] = "failed"
                    /\ loc'[p].err = "Rate limit exceeded"
                    /\ ~loc'[p].replay
               ELSE pc'[p] \in {"idemCheck", "txBegin"}
            /\ UNCHANGED <<durable, idemp>>
     /\ \A p \in Procs :
          pc[p] \in Finished /\ pc'[p] \in {"idemCheck", "txBegin"} =>
            /\ rate'[req'[p].userId] = rate[req'[p].userId] + 1
            /\ rate'[req'[p].userId] <= RATE_LIMIT_PER_MINUTE
     /\ \A u \in UserIds :
          /\ rate[u] = 0 /\ rate'[u] = 1 => rateExp'[u] = now + RATE_WINDOW
          /\ rateExp'[u] # rateExp[u] =>
               \/ rate[u] = 0 /\ rate'[u] = 1
               \/ now' > now /\ rateExp[u] <= now'
                  /\ rate'[u] = 0 /\ rateExp'[u] = NoTime
          /\ now' # now =>
               rate'[u] = IF rateExp[u] # NoTime /\ rateExp[u] <= now'
                          THEN 0 ELSE rate[u]
          /\ rate'[u] > 0 => rateExp'[u] # NoTime]_vars

\* C8 witness: the 21st call of u1 in the window has been refused while a
\* call of u2 is let through.
C8_Witness ==
  \E p, q \in Procs :
    /\ rate["u1"] = RATE_LIMIT_PER_MINUTE + 1
    /\ pc[p] = "failed" /\ loc[p].err = "Rate limit exceeded"
    /\ req[p].userId = "u1"
    /\ req[q].userId = "u2" /\ pc[q] = "txBegin" /\ rate["u2"] = 1

\* C9: every durable change to a user_state row is made by the COMMIT of a
\* transaction that holds the row's lock and that also appends an answer_log
\* entry and upserts the leaderboard rows.
C9_RowWrittenOnlyInTransaction ==
  [][\A u \in Users :
       user_state'[u] # user_state[u] =>
         \E p \in Procs : HoldsLock(p, u) /\ CommitsAll(p)]_vars

\* No call of user u is in flight.
Quiescent(u) == \A p \in Procs : req[p].userId = u => pc[p] \in Finished

\* C10: once all in-flight calls of a user have completed, the cached user
\* state (if present) and the user's members in the cached sorted sets carry
\* the values of the latest committed durable state.
C10_CacheFollowsLatestCommit ==
  \A u \in Users :
    Quiescent(u) =>
      /\ u \in DOMAIN cache_state =>
           LET c == ParseState(cache_state[u]) IN
           /\ c.stateVersion = user_state[u].stateVersion
           /\ c.totalScore = user_state[u].totalScore
           /\ c.streak = user_state[u].streak
           /\ c.maxStreak = user_state[u].maxStreak
      /\ u \in DOMAIN zset_score => zset_score[u] = user_state[u].totalScore
      /\ u \in DOMAIN zset_streak => zset_streak[u] = user_state[u].maxStreak

\* C11: in an execution without overlapping requests, after a successful
\* submitAnswer has returned, the cached user state of that user equals the
\* durable user_state row field for field (lastQuestionId included), so that
\* getUserState gives the same values from the cache as from the row.
C11_CacheEqualsRow ==
  \A p \in Procs :
    pc[p] = "done" /\ req[p].op = "submit" /\ ~loc[p].replay =>
      /\ req[p].userId \in DOMAIN cache_state
      /\ ParseState(cache_state[req[p].userId])
           = hydrateState(user_state[req[p].userId])

\* C12: after a successful submitAnswer has returned, no cache entry written
\* before its commit remains for the user's metrics or for the top lists:
\* metrics:<user> is gone, and so is the cached top list of both dimensions
\* for every limit.  Checked where requests do not overlap, so that every
\* entry present at the return was written before the call.
C12_StaleCachesDeleted ==
  \A p \in Procs :
    pc[p] = "done" /\ req[p].op = "submit" /\ ~loc[p].replay =>
      /\ req[p].userId \notin DOMAIN cache_metrics
      /\ \A kind \in TopKinds, limit \in TopLimits :
           cacheKeyForTop(kind, safeLimit(limit)) \notin DOMAIN cache_top

\* C13: in every reachable durable state, each user that has a
\* leaderboard_score row has total_score in it equal to the total_score of
\* their user_state row, and each user that has a leaderboard_streak row has
\* max_streak in it equal to the max_streak of their user_state row.
C13_LeaderboardMatchesRow ==
  /\ DOMAIN leaderboard_score \subseteq Users
  /\ DOMAIN leaderboard_streak \subseteq Users
  /\ \A u \in DOMAIN leaderboard_score :
       leaderboard_score[u] = user_state[u].totalScore
  /\ \A u \in DOMAIN leaderboard_streak :
       leaderboard_streak[u] = user_state[u].maxStreak

\* C13 witness: a user has two logged answers and a positive score, and the
\* decay write of getUserState has since put an older state_version in the
\* row; the leaderboard rows still carry the row's score and highest streak.
C13_Witness ==
  \E u \in Users :
    /\ u \in DOMAIN leaderboard_score /\ u \in DOMAIN leaderboard_streak
    /\ Len(LogOf(u)) = 2 /\ decays[u] = 2
    /\ user_state[u].stateVersion = 3
    /\ leaderboard_score[u] = user_state[u].totalScore
    /\ leaderboard_score[u] > 0
    /\ leaderboard_streak[u] = user_state[u].maxStreak

\* Every submitAnswer call made so far has returned.
SubmitsReturned == \A q \in Procs : req[q].op = "submit" => pc[q] \in Finished

\* rows lists the n highest rows of table: as many as there are, up to n,
\* each user once with the value of the table, highest first, and no user
\* left out has a higher value than the last one listed.
IsTopOf(rows, table, n) ==
  /\ Len(rows) = Min(n, Cardinality(DOMAIN table))
  /\ \A i \in 1..Len(rows) :
       /\ rows[i].value \in DOMAIN table
       /\ rows[i].score = table[rows[i].value]
       /\ \A j \in 1..Len(rows) :
            /\ i < j => rows[i].score >= rows[j].score
            /\ i # j => rows[i].value # rows[j].value
  /\ \A u \in DOMAIN table :
       (\A i \in 1..Len(rows) : rows[i].value # u) =>
         Len(rows) > 0 /\ table[u] <= rows[Len(rows)].score

\* C14: when getTop finds no cached list and every submitAnswer call has
\* returned, the members and values it reads are the top `limit` rows of the
\* durable leaderboard table of its dimension, highest first, and the value
\* it adds for the other dimension is the one of the durable row.
C14_TopFromDurableRows ==
  [][\A p \in Procs :
       /\ pc[p] = "topRange" /\ pc'[p] = "topScores" /\ SubmitsReturned =>
            IsTopOf(loc'[p].rows,
                    IF KindOf(req[p].op) = "score"
                    THEN leaderboard_score ELSE leaderboard_streak,
                    safeLimit(req[p].limit))
       /\ pc[p] = "topScores" /\ pc'[p] = "topSet" /\ SubmitsReturned =>
            \A i \in 1..Len(loc'[p].result[1]) :
              LET e == loc'[p].result[1][i] IN
              /\ e.userId \in DOMAIN leaderboard_score
                   => e.totalScore = leaderboard_score[e.userId]
              /\ e.userId \in DOMAIN leaderboard_streak
                   => e.maxStreak = leaderboard_streak[e.userId]]_vars

\* The number of users other than u whose row in table is above value.
Above(table, u, value) ==
  Cardinality({x \in DOMAIN table \ {u} : table[x] > value})

\* C15: the leaderboardRankScore in the response of a successful
\* submitAnswer is 1 plus the number of durable leaderboard_score rows with a
\* total_score strictly above the user's new totalScore, and
\* leaderboardRankStreak is 1 plus the number of leaderboard_streak rows with
\* a max_streak strictly above the new maxStreak, as the rows are when the
\* transaction counts them; the response returned carries these ranks.
C15_RankInResponse ==
  [][\A p \in Procs :
       /\ pc[p] = "txBody" /\ pc'[p] = "txCommit" =>
            LET r == loc'[p].result[1]
                u == req[p].userId
            IN /\ r.leaderboardRankScore
                    = 1 + Above(leaderboard_score, u, r.totalScore)
               /\ r.leaderboardRankStreak
                    = 1 + Above(leaderboard_streak, u, r.maxStreak)
       /\ pc[p] \in {"txCommit", "cacheLeaderboard", "cacheState", "storeIdem"} =>
            /\ pc'[p] # "failed"
            /\ loc'[p].result = loc[p].result]_vars

\* C15 witness: a submission has returned rank 2 by score while two users
\* have leaderboard rows, and the other user's row is above the response's
\* totalScore.
C15_Witness ==
  \E p \in Procs :
    /\ pc[p] = "done" /\ req[p].op = "submit" /\ ~loc[p].replay
    /\ loc[p].result[1].leaderboardRankScore = 2
    /\ \E x \in DOMAIN leaderboard_score \ {req[p].userId} :
         leaderboard_score[x] > loc[p].result[1].totalScore

\* C16: under any interleaving with committing submissions, getRank returns
\* per dimension null when the user has no durable row, and otherwise 1 plus
\* the number of rows strictly above the user's own row; a rank that is not
\* null was counted against the user's own row, never as if the user had
\* none.
C16_RankFromOwnRow ==
  [][\A p \in Procs :
       pc[p] = "hasStreak" /\ pc'[p] = "done" =>
         LET r == loc'[p].result[1]
             got == loc[p].rows
             u == req[p].userId
         IN /\ u \notin DOMAIN leaderboard_streak
                 => r.leaderboardRankStreak = NoRank
            /\ r.leaderboardRankScore # NoRank =>
                 /\ got["scoreOwn"] # NO_ROW_VALUE
                 /\ r.leaderboardRankScore = got["scoreRank"]
            /\ r.leaderboardRankStreak # NoRank =>
                 /\ got["streakOwn"] # NO_ROW_VALUE
                 /\ r.leaderboardRankStreak = got["streakRank"]]_vars

\* C17: the decay rule on both paths. Decay fires exactly when lastAnswerAt
\* is present, more than 5 minutes have passed since it and streak > 0; it
\* then halves the streak (floor), lowers confidence by 1 (not below -2)
\* and raises stateVersion by 1; otherwise it leaves the three fields as
\* they are. The state submitAnswer goes on with after its row read, and the
\* state getUserState goes on with after its row read, are the rule's
\* outcome on the row read.
DecayRule(st, t) ==
  IF st.lastAnswerAt # NoTime /\ t - st.lastAnswerAt > 5 /\ st.streak > 0
  THEN [st EXCEPT !.streak = st.streak \div 2,
                  !.confidence = IF st.confidence - 1 < -2 THEN -2
                                 ELSE st.confidence - 1,
                  !.stateVersion = st.stateVersion + 1]
  ELSE st

C17_DecayRuleBothPaths ==
  [][\A p \in Procs :
       /\ pc[p] = "txBegin" /\ pc'[p] = "txBody" =>
            loc'[p].state = DecayRule(user_state[req[p].userId], now)
       /\ pc[p] = "getFill" /\ pc'[p] = "getSetDecayed" =>
            loc'[p].state = DecayRule(loc[p].state, now)
       /\ pc[p] = "getFill" /\ pc'[p] = "done" =>
            loc'[p].result[1] = DecayRule(loc[p].state, now)]_vars

\* C18: applying decay does not re-trigger decay. Once getUserState has
\* made a decay durable for a user's period of inactivity and no answer of
\* that user has been committed since, a submitAnswer that reads the row
\* does not decay it again, and a getUserState does not decay beyond the
\* durable row (no second halving, lowering or version bump).
C18_DecayNotRetriggered ==
  [][\A p \in Procs :
       LET u == req'[p].userId IN
       /\ pc[p] = "txBegin" /\ pc'[p] = "txBody" /\ decayedSince[u] =>
            ~loc'[p].decay
       /\ pc[p] # "getSetDecayed" /\ pc'[p] = "getSetDecayed" /\ decayedSince[u] =>
            loc'[p].state.stateVersion <= user_state[u].stateVersion]_vars

C20_ScoreNeverNegative ==
  /\ \A u \in Users : user_state[u].totalScore >= 0
  /\ \A u \in DOMAIN leaderboard_score : leaderboard_score[u] >= 0
  /\ \A u \in DOMAIN cache_state : ParseState(cache_state[u]).totalScore >= 0
  /\ \A k \in DOMAIN idemp : ParseResponse(idemp[k]).totalScore >= 0
  /\ \A p \in Procs :
       /\ \A i \in 1..Len(loc[p].writes) : loc[p].writes[i].row.totalScore >= 0
       /\ req[p].op \in {"submit", "get"} =>
            \A i \in 1..Len(loc[p].result) : loc[p].result[i].totalScore >= 0

\* A wrong answer with its penalty of -5 has been committed and returned
\* for a user whose score was below 5: the score is 0.
C20_Witness ==
  \E p \in Procs :
    /\ pc[p] = "done" /\ req[p].op = "submit" /\ ~loc[p].replay
    /\ loc[p].result[1].scoreDelta = WRONG_PENALTY
    /\ loc[p].result[1].totalScore = 0
    /\ user_state[req[p].userId].totalScore = 0
    /\ \E i \in 1..Len(answer_log) :
         /\ answer_log[i].userId = req[p].userId
         /\ answer_log[i].scoreDelta = WRONG_PENALTY

\* C21: after every answer and every decay, on either path, currentDifficulty
\* is in [1,10] and confidence is in [-2,2], from whatever levels in these
\* ranges the user had before.
C21_LevelsInRange ==
  \A i \in 1..Len(fn.trail) :
    /\ fn.trail[i].currentDifficulty \in 1..10
    /\ fn.trail[i].confidence \in -2..2

\* A user at difficulty 10 with confidence 1 and streak 1 has answered
\* correctly: the step up was due and the difficulty is still 10; then a
\* read after a pause has decayed the state.
C21_Witness ==
  /\ Len(fn.trail) = 3
  /\ fn.answers = <<TRUE>>
  /\ fn.trail[1] = [currentDifficulty |-> 10, confidence |-> 1, streak |-> 1]
  /\ fn.trail[2] = [currentDifficulty |-> 10, confidence |-> 0, streak |-> 2]
  /\ fn.trail[3] = [currentDifficulty |-> 10, confidence |-> -1, streak |-> 1]

\* C22: for every difficulty d in 1..10 and streak s >= 0,
\* calculateScore(d, s, true) is round(d*10*min(1 + 0.1 s, 2)), the integer
\* d*min(10 + s, 20), and calculateScore(d, s, false) is -5; so the score
\* delta submitAnswer gets is always an integer.
C22_ScoreIsTheInteger ==
  \A i \in 1..Len(fn.output) :
    LET d == fn.input.difficulty
        st == fn.input.streak
        out == fn.output[i]
    IN /\ out.integral
       /\ fn.input.correct =>
            out.value = d * (IF 10 + st < 20 THEN 10 + st ELSE 20)
       /\ ~fn.input.correct => out.value = -5

\* The answer_log entry e is the one of the submission that response r
\* reports.
Describes(r, e) ==
  /\ e.correct = r.correct
  /\ e.scoreDelta = r.scoreDelta
  /\ e.streakAtAnswer = r.newStreak
  /\ e.confidenceAfter = r.newConfidence
  /\ e.answeredAt = r.answeredAt

\* C23: an idempotency record is written only after the transaction of its
\* submission has committed.  In every state each stored response reports a
\* submission whose answer_log entry is durable; the records change only in
\* the store step of a call whose own entry is already durable, and a call
\* that ends in an error (rejected or rolled back) leaves the records alone.
C23_RecordOnlyAfterCommit ==
  /\ [](\A k \in DOMAIN idemp :
          \E i \in 1..Len(answer_log) :
            Describes(ParseResponse(idemp[k]), answer_log[i]))
  /\ [][/\ idemp' # idemp =>
             \E p \in Procs :
               /\ pc[p] = "storeIdem" /\ pc'[p] = "done"
               /\ idemp' = Upsert(idemp, req[p].answerIdempotencyKey,
                                  StringifyResponse(loc[p].result[1]))
               /\ \E i \in 1..Len(answer_log) :
                    /\ answer_log[i].userId = req[p].userId
                    /\ Describes(loc[p].result[1], answer_log[i])
        /\ \A p \in Procs : pc'[p] = "failed" /\ pc[p] # "failed" => idemp' = idemp]_vars

\* Two calls carried token k1 and overlapped: one committed and stored its
\* response, the other was rejected and the record is the first one's.
C23_Witness ==
  \E p, q \in Procs :
    /\ pc[p] = "done" /\ req[p].op = "submit" /\ ~loc[p].replay
    /\ req[p].answerIdempotencyKey = "k1"
    /\ "k1" \in DOMAIN idemp
    /\ ParseResponse(idemp["k1"]) = loc[p].result[1]
    /\ pc[q] = "failed" /\ req[q].op = "submit"
    /\ req[q].answerIdempotencyKey = "k1"
    /\ Len(answer_log) = 1

\* C24: when the cache is unavailable, submitAnswer and getUserState never
\* report the cache failure to the caller as an error; in particular a
\* submitAnswer whose transaction has committed does not end in an error
\* because a write to the cache or the idempotency record failed after it.
C24_CacheFailureNotSurfaced ==
  [][\A p \in Procs :
       pc[p] # "failed" /\ pc'[p] = "failed" =>
         /\ loc'[p].err # REDIS_ERROR
         /\ pc[p] \notin {"cacheLeaderboard", "cacheState", "storeIdem"}]_vars

\* The request slot p takes a step of a call, and the user of that call.
CallMoves(p) == <<pc[p], req[p], loc[p]>>' # <<pc[p], req[p], loc[p]>>
UserOfStep(p) == IF pc[p] \in Finished THEN req'[p].userId ELSE req[p].userId

\* What the stores hold about user b.
PartOf(b) ==
  <<IF b \in Users THEN <<user_state[b]>> ELSE <<>>,
    LogOf(b),
    IF b \in DOMAIN leaderboard_score THEN <<leaderboard_score[b]>> ELSE <<>>,
    IF b \in DOMAIN leaderboard_streak THEN <<leaderboard_streak[b]>> ELSE <<>>,
    IF b \in DOMAIN cache_state THEN <<cache_state[b]>> ELSE <<>>,
    rate[b], rateExp[b]>>

\* C25: a submitAnswer or getUserState call for user A never changes user
\* B's user_state row, answer_log entries, leaderboard rows, cached state or
\* rate counter, and a submission for A never waits for a row lock held by
\* an in-flight submission for B: its locking read can go on whenever no
\* other transaction of A itself is open.
C25_OtherUsersUntouched ==
  /\ [][\A p \in Procs :
          CallMoves(p) =>
            \A b \in UserIds \ {UserOfStep(p)} : PartOf(b)' = PartOf(b)]_vars
  /\ [](\A p \in Procs :
          (/\ pc[p] = "txBegin"
           /\ \A q \in Procs \ {p} :
                pc[q] \in {"txBody", "txCommit"} => req[q].userId # req[p].userId)
          => ENABLED TxBegin(p))

\* A submission of u1 has read its row under the lock while a submission of
\* u2 holds the lock of u2's row, and u2's has already committed before.
C25_Witness ==
  \E p, q \in Procs :
    /\ pc[p] = "txBody" /\ req[p].userId = "u1"
    /\ pc[q] = "txBody" /\ req[q].userId = "u2"
    /\ Len(LogOf("u2")) = 1

\* C26: a single answer never flips difficulty.  Over any sequence of
\* submitAnswer and getUserState calls, at the commit of an answer the
\* user's currentDifficulty goes up only if that answer and the user's
\* answer before it were both correct and the streak after it is at least
\* 2, and goes down only if that answer and the one before it were both
\* wrong.
C26_NoFlipOnSingleAnswer ==
  [][\A p \in Procs :
       pc[p] = "txCommit" /\ pc'[p] # "txCommit" =>
         LET u == req[p].userId
             before == LogOf(u)
             this == answer_log'[Len(answer_log')]
             old == user_state[u].currentDifficulty
             new == user_state'[u].currentDifficulty
         IN /\ new > old =>
                 /\ this.correct
                 /\ before # <<>> /\ before[Len(before)].correct
                 /\ user_state'[u].streak >= 2
            /\ new < old =>
                 /\ ~this.correct
                 /\ before # <<>> /\ ~before[Len(before)].correct]_vars

\* The value of an entry in the dimension its list is ordered by.
ValueIn(op, e) == IF KindOf(op) = "score" THEN e.totalScore ELSE e.maxStreak

\* C27: in every list getTop returns, the rank of an entry is 1 plus the
\* number of users whose value in the list's dimension is strictly
\* greater, so users with equal value have the same rank, as in the ranks
\* getRank and submitAnswer report.
C27_TopRanksCountGreater ==
  \A p \in Procs :
    req[p].op \in {TopOp(kind) : kind \in TopKinds} /\ pc[p] = "done" =>
      LET entries == loc[p].result[1] IN
      \A i \in 1..Len(entries) :
        entries[i].rank
          = 1 + Cardinality({j \in 1..Len(entries) :
                               ValueIn(req[p].op, entries[j])
                                 > ValueIn(req[p].op, entries[i])})

\* C28: read-then-submit always works.  When getUserState has returned
\* stateVersion v for a user and the next request, with no time passing in
\* between, is a submitAnswer of that user carrying v, the submission is
\* not rejected with a state version mismatch, whether the user's last
\* answer is recent or more than 5 minutes old.
C28_ReadThenSubmit ==
  [][\A p \in Procs :
       pc[p] = "txBegin" /\ req[p].follows =>
         ~(pc'[p] = "failed" /\ loc'[p].err = "State version mismatch")]_vars

\* The call in slot q has committed its transaction and has not yet stored
\* its response.
CommittedNotStored(q) ==
  req[q].op = "submit" /\ pc[q] \in {"cacheLeaderboard", "cacheState", "storeIdem"}

\* C29: for any idempotency token at most one submission carrying it ever
\* commits.  When a call with a token commits, no response is stored under
\* that token and no other call with that token has committed before it,
\* also when the two calls overlap and whatever stateVersion each carries.
C29_OneCommitPerToken ==
  [][\A p \in Procs :
       LET k == req[p].answerIdempotencyKey IN
       pc[p] = "txCommit" /\ pc'[p] # "txCommit" /\ k # NoKey =>
         /\ k \notin DOMAIN idemp
         /\ \A q \in Procs \ {p} :
              ~(CommittedNotStored(q) /\ req[q].answerIdempotencyKey = k)]_vars

\* C30: a replayed response is only ever returned to a request for the same
\* user and question that produced it.  When the lookup returns a stored
\* response, it is the response of a committed answer of the caller's
\* user to the question the caller names; user B sending a token stored by
\* user A's submission does not get A's response.
C30_ReplayOnlyToProducer ==
  [][\A p \in Procs :
       pc[p] = "idemCheck" /\ pc'[p] = "done" /\ loc'[p].replay =>
         \E i \in 1..Len(answer_log) :
           /\ answer_log[i].userId = req[p].userId
           /\ answer_log[i].questionId = req[p].questionId
           /\ Describes(loc'[p].result[1], answer_log[i])]_vars

\* The client of request p is out of the pool: from pool.connect() until
\* client.release() (db.ts 21-32).
InTransaction(p) == pc[p] \in {"txBegin", "txBody", "txCommit"}

\* C31: every submitAnswer call that has taken a user's row lock eventually
\* commits or rolls back, which gives back the lock and the client, on the
\* success path and on every error path; the lock is given up in no other
\* way; transactions in flight never all wait (no deadlock), for the same
\* user or for different users; and under fair scheduling a submission
\* waiting for the lock eventually gets it or fails.
C31_LockAlwaysReleased ==
  /\ \A p \in Procs : HoldsLock(p, req[p].userId) ~> ~InTransaction(p)
  /\ \A p \in Procs : pc[p] = "txBegin" ~> pc[p] \in {"txBody", "failed"}
  /\ []((\E p \in Procs : InTransaction(p)) =>
          \E p \in Procs : ENABLED (TxBegin(p) \/ TxBody(p) \/ TxCommit(p)))
  /\ [][\A p \in Procs :
          HoldsLock(p, req[p].userId) /\ ~InTransaction(p)' =>
            \/ pc[p] = "txCommit" /\ pc'[p] = "cacheLeaderboard"
                 /\ Len(answer_log') = Len(answer_log) + 1
            \/ pc'[p] = "failed" /\ durable' = durable]_vars

\* A submission waits for the row lock that another submission of the same
\* user holds, after an earlier transaction of that user has committed and
\* given the lock back.
C31_Witness ==
  \E p, q \in Procs :
    /\ pc[p] = "txBegin" /\ HoldsLock(q, req[p].userId)
    /\ ~ENABLED TxBegin(p)
    /\ Len(LogOf(req[p].userId)) = 1

\* A confidence of 1 comes with a live streak, and the confidence is below
\* the promotion threshold.
Momentum(confidence, streak) ==
  /\ confidence < CONFIDENCE_UP_THRESHOLD
  /\ confidence = 1 => streak >= 1

\* C32: starting from the onboarding defaults, in every reachable state a
\* confidence of 1 comes with a streak of at least 1 and no confidence of 2
\* is persisted (user_state, answer_log), cached (user_state:<user>, the
\* stored responses) or returned (by submitAnswer or getUserState); and
\* whenever a correct answer raises the confidence to 2, the streak after
\* the answer is at least 2, so the step up is taken: the difficulty goes
\* up one level (it stays 10 at 10) and the confidence is reset to 0.
C32_PromotionNeverBlocked ==
  /\ [](
         /\ \A u \in Users :
              Momentum(user_state[u].confidence, user_state[u].streak)
         /\ \A i \in 1..Len(answer_log) :
              Momentum(answer_log[i].confidenceAfter, answer_log[i].streakAtAnswer)
         /\ \A u \in DOMAIN cache_state :
              LET st == ParseState(cache_state[u])
              IN Momentum(st.confidence, st.streak)
         /\ \A k \in DOMAIN idemp :
              LET r == ParseResponse(idemp[k])
              IN Momentum(r.newConfidence, r.newStreak)
         /\ \A p \in Procs :
              pc[p] = "done" /\ loc[p].result # <<>> =>
                LET r == loc[p].result[1] IN
                IF req[p].op = "submit"
                THEN Momentum(r.newConfidence, r.newStreak)
                ELSE Momentum(r.confidence, r.streak))
  /\ [][\A p \in Procs :
          pc[p] = "txBody" /\ pc'[p] = "txCommit" =>
            LET cur == loc[p].state
                r == loc'[p].result[1]
            IN r.correct /\ cur.confidence + 1 >= CONFIDENCE_UP_THRESHOLD =>
                 /\ r.newStreak >= MIN_STREAK_FOR_INCREASE
                 /\ r.newDifficulty = Min(MAX_DIFFICULTY, cur.currentDifficulty + 1)
                 /\ r.newConfidence = 0]_vars

\* A correct answer of a user with confidence 1 and streak 1 has been
\* scored: the streak is 2, the difficulty went from 1 to 2, and the
\* response with confidence 0 has been returned and cached.
C32_Witness ==
  \E p \in Procs :
    /\ pc[p] = "done" /\ req[p].op = "submit" /\ loc[p].result # <<>>
    /\ loc[p].result[1].correct
    /\ loc[p].result[1].newStreak = 2
    /\ loc[p].result[1].newDifficulty = 2
    /\ loc[p].result[1].newConfidence = 0
    /\ user_state[req[p].userId].currentDifficulty = 2
    /\ req[p].userId \in DOMAIN cache_state
    /\ ParseState(cache_state[req[p].userId]).currentDifficulty = 2

====
